---- MODULE Spec2Model ----
(***************************************************************************)
(* Connection lifecycle and access verification of the InfluxDB v2         *)
(* connection producer (influxdbConnectionProducer): Initialize,           *)
(* Connection, Close, createClient and isTokenSufficientAccess.            *)
(*                                                                         *)
(* Every caller is a thread with a program counter; one action is one      *)
(* step of a method between two points where another thread can run.  The  *)
(* sequential specifications let one call run to its return before the     *)
(* next one starts; the concurrent one interleaves the steps freely.       *)
(***************************************************************************)
EXTENDS Integers, Sequences, FiniteSets, TLC

(***************************************************************************)
(* Bounds of the model.                                                    *)
(***************************************************************************)
NumProcs == 2       \* concurrent callers of the producer
MaxInits == 2       \* Initialize calls in one behaviour
MaxHandles == 2     \* clients createClient may construct in one behaviour
MaxRecords == 2     \* authorization records the server returns (SpecPerm)

Procs == 1..NumProcs

(***************************************************************************)
(* Values.  A configuration is req.Config, a map from keys to loosely      *)
(* typed values; a key the map does not hold has the value Absent.         *)
(***************************************************************************)
Absent == "<absent>"
Nested == "<nested>"     \* a nested structure where a scalar is expected
NilRaw == "<nil>"        \* the nil interface{} of ConnectTimeoutRaw
NoErr == "ok"

\* The keys mapstructure matches against the exported fields of the struct:
\* the tagged fields by their tag, the untagged exported field Initialized by
\* its name.  (default_bucket, organization and Type are decoded the same way
\* and read by nothing modelled here; they are left out.)
Keys ==
  {"host", "token", "port", "tls", "insecure_tls", "connect_timeout",
   "tls_min_version", "pem_bundle", "pem_json", "Initialized"}

\* The values a key takes in the model, besides Absent.
KeyValues(k) ==
  CASE k = "host" -> {"", "h"}
    [] k = "token" -> {"", "tA", "tB"}
    [] k = "port" -> {"9", Nested}
    [] k = "tls" -> {"true", "false"}
    [] k = "insecure_tls" -> {"true"}
    [] k = "connect_timeout" -> {"10s", "bad"}
    [] k = "tls_min_version" -> {"tls12", "bogus"}
    [] k = "pem_bundle" -> {"pemFull", "pemCertOnly", "pemBad"}
    [] k = "pem_json" -> {"jsonCA", "jsonCertOnly", "jsonBad"}
    [] k = "Initialized" -> {"true"}

Tokens == {"tA", "tB"}

EmptyConfig == [k \in Keys |-> Absent]
GoodConfig == [EmptyConfig EXCEPT !["host"] = "h", !["token"] = "tA"]

\* The configurations that differ from c in at most one key.
Vary(c) ==
  {c} \cup UNION {{[c EXCEPT ![k] = v] : v \in KeyValues(k) \cup {Absent}} : k \in Keys}

\* Inputs of Initialize in the configuration specification.
Configs == Vary(EmptyConfig) \cup Vary(GoodConfig)

(***************************************************************************)
(* The producer: the fields of influxdbConnectionProducer that the         *)
(* modelled methods read or write.  client is 0 for nil, else the id of a  *)
(* client createClient constructed.                                        *)
(***************************************************************************)
NilConfig == [k \in Keys |-> NilRaw]

NewProducer ==
  [Host |-> "", Token |-> "", Port |-> "", TLS |-> FALSE, InsecureTLS |-> FALSE,
   ConnectTimeoutRaw |-> NilRaw, TLSMinVersion |-> "", PemBundle |-> "",
   PemJSON |-> "", connectTimeout |-> 0, certificate |-> "", privateKey |-> "",
   issuingCA |-> "", rawConfig |-> NilConfig, Initialized |-> FALSE, client |-> 0]

(***************************************************************************)
(* mapstructure.WeakDecode(req.Config, i): every exported field whose key  *)
(* the map holds is overwritten with the coerced value; a field whose key  *)
(* the map does not hold keeps the value it had.  A value that cannot be   *)
(* coerced leaves its field alone and makes the call return an error       *)
(* after the other fields were written.                                    *)
(***************************************************************************)
DecodeString(old, v) == IF v \in {Absent, Nested} THEN old ELSE v
DecodeBool(old, v) == IF v \in {Absent, Nested} THEN old ELSE (v = "true")
DecodeRaw(old, v) == IF v = Absent THEN old ELSE v

WeakDecode(cfg, self) ==
  [out |-> [self EXCEPT
            !.Host = DecodeString(@, cfg["host"]),
            !.Token = DecodeString(@, cfg["token"]),
            !.Port = DecodeString(@, cfg["port"]),
            !.TLS = DecodeBool(@, cfg["tls"]),
            !.InsecureTLS = DecodeBool(@, cfg["insecure_tls"]),
            !.ConnectTimeoutRaw = DecodeRaw(@, cfg["connect_timeout"]),
            !.TLSMinVersion = DecodeString(@, cfg["tls_min_version"]),
            !.PemBundle = DecodeString(@, cfg["pem_bundle"]),
            !.PemJSON = DecodeString(@, cfg["pem_json"]),
            !.Initialized = DecodeBool(@, cfg["Initialized"])],
   err |-> \E k \in {"host", "token", "port", "tls_min_version", "pem_bundle",
                     "pem_json", "tls", "insecure_tls", "Initialized"} :
             cfg[k] = Nested]

\* parseutil.ParseDurationSecond on the raw values of the model: seconds,
\* or an error (with the zero duration) for a string that is no duration.
ParseDurationSecond(raw) ==
  CASE raw = "5s" -> [d |-> 5, err |-> FALSE]
    [] raw = "10s" -> [d |-> 10, err |-> FALSE]
    [] OTHER -> [d |-> 0, err |-> TRUE]

\* Lines 81-104 of Initialize: store the raw configuration, decode, apply the
\* defaults, parse the timeout, require host and token.
DecodeConfig(self, cfg) ==
  LET i1 == [self EXCEPT !.rawConfig = cfg]
      dec == WeakDecode(cfg, i1)
      i2 == [dec.out EXCEPT
               !.ConnectTimeoutRaw = IF @ = NilRaw THEN "5s" ELSE @,
               !.Port = IF @ = "" THEN "8086" ELSE @]
      dur == ParseDurationSecond(i2.ConnectTimeoutRaw)
      i3 == [i2 EXCEPT !.connectTimeout = dur.d]
  IN  IF dec.err THEN [out |-> dec.out, err |-> "decode"]
      ELSE IF dur.err THEN [out |-> i3, err |-> "invalid connect_timeout"]
      ELSE IF i3.Host = "" THEN [out |-> i3, err |-> "host cannot be empty"]
      ELSE IF i3.Token = "" THEN [out |-> i3, err |-> "token cannot be empty"]
      ELSE [out |-> i3, err |-> NoErr]

\* certutil.ParsePKIJSON / ParsePEMBundle followed by ToCertBundle, on the
\* inputs of the model: a bundle that does not parse is an error; one that
\* parses yields the PEM strings it holds.  A certificate without a private
\* key parses (the library verifies the key against the certificate only
\* when both are there).
NoBundle == [Certificate |-> "", PrivateKey |-> "", IssuingCA |-> ""]

ParsePKIJSON(json) ==
  CASE json = "jsonCA" ->
         [err |-> FALSE, bundle |-> [NoBundle EXCEPT !.IssuingCA = "CA-J"]]
    [] json = "jsonCertOnly" ->
         [err |-> FALSE, bundle |-> [NoBundle EXCEPT !.Certificate = "CERT-K"]]
    [] OTHER -> [err |-> TRUE, bundle |-> NoBundle]

ParsePEMBundle(pem) ==
  CASE pem = "pemFull" ->
         [err |-> FALSE,
          bundle |-> [Certificate |-> "CERT-P", PrivateKey |-> "KEY-P", IssuingCA |-> "CA-P"]]
    [] pem = "pemCertOnly" ->
         [err |-> FALSE, bundle |-> [NoBundle EXCEPT !.Certificate = "CERT-Q"]]
    [] OTHER -> [err |-> TRUE, bundle |-> NoBundle]

\* AssembleCertificates leaving the initialized flag as it was.
AssembleCertificatesNoFlag(self) ==
  LET parsed == IF self.PemJSON # "" THEN ParsePKIJSON(self.PemJSON)
                ELSE ParsePEMBundle(self.PemBundle)
  IN  IF self.PemJSON = "" /\ self.PemBundle = ""
        THEN [out |-> self, err |-> NoErr]
      ELSE IF parsed.err
        THEN [out |-> self,
              err |-> IF self.PemJSON # "" THEN "could not parse given JSON"
                      ELSE "Error parsing the given PEM information"]
      ELSE [out |-> [self EXCEPT !.certificate = parsed.bundle.Certificate,
                            !.privateKey = parsed.bundle.PrivateKey,
                            !.issuingCA = parsed.bundle.IssuingCA,
                            !.TLS = TRUE],
            err |-> NoErr]

\* Lines 106-140 of Initialize: the JSON form first, else the PEM form, else
\* nothing; then the initialized flag.
AssembleCertificates(self) ==
  LET parsed == IF self.PemJSON # "" THEN ParsePKIJSON(self.PemJSON)
                ELSE ParsePEMBundle(self.PemBundle)
  IN  IF self.PemJSON = "" /\ self.PemBundle = ""
        THEN [out |-> [self EXCEPT !.Initialized = TRUE], err |-> NoErr]
      ELSE IF parsed.err
        THEN [out |-> self,
              err |-> IF self.PemJSON # "" THEN "could not parse given JSON"
                      ELSE "Error parsing the given PEM information"]
      ELSE [out |-> [self EXCEPT !.certificate = parsed.bundle.Certificate,
                            !.privateKey = parsed.bundle.PrivateKey,
                            !.issuingCA = parsed.bundle.IssuingCA,
                            !.TLS = TRUE,
                            !.Initialized = TRUE],
            err |-> NoErr]

\* tlsutil.TLSLookup.
TLSLookup == [tls10 |-> 769, tls11 |-> 770, tls12 |-> 771, tls13 |-> 772]

\* Lines 191-239 of createClient: the TLS client configuration, or the error
\* that ends createClient before a client is constructed.
NoTLS == [InsecureSkipVerify |-> FALSE, MinVersion |-> 0, clientCert |-> "", rootCA |-> ""]

\* The options a client is constructed with: influxdb2.NewClient when tls is
\* FALSE, NewClientWithOptions with the TLS configuration otherwise.
NoOptions == [tls |-> FALSE, tlsConfig |-> NoTLS]

\* BuildTLSConfig taking a name the table does not hold for no name: the
\* minimum version 0 and no error.
BuildTLSConfigIgnoresUnknownVersion(self) ==
  LET withCerts == self.certificate # "" \/ self.issuingCA # ""
      base == IF withCerts
                THEN [NoTLS EXCEPT !.clientCert = self.certificate, !.rootCA = self.issuingCA]
                ELSE NoTLS
      cfg == [base EXCEPT
                !.InsecureSkipVerify = self.InsecureTLS,
                !.MinVersion = IF self.TLSMinVersion # "" /\ self.TLSMinVersion \in DOMAIN TLSLookup
                                 THEN TLSLookup[self.TLSMinVersion] ELSE 0]
  IN  IF ~self.TLS THEN [err |-> NoErr, tls |-> FALSE, tlsConfig |-> NoTLS]
      ELSE IF withCerts /\ self.certificate # "" /\ self.privateKey = ""
        THEN [err |-> "found certificate for TLS authentication but no private key",
              tls |-> TRUE, tlsConfig |-> NoTLS]
      ELSE [err |-> NoErr, tls |-> TRUE, tlsConfig |-> cfg]

BuildTLSConfig(self) ==
  LET withCerts == self.certificate # "" \/ self.issuingCA # ""
      base == IF withCerts
                THEN [NoTLS EXCEPT !.clientCert = self.certificate, !.rootCA = self.issuingCA]
                ELSE NoTLS
      cfg == [base EXCEPT
                !.InsecureSkipVerify = self.InsecureTLS,
                !.MinVersion = IF self.TLSMinVersion # "" /\ self.TLSMinVersion \in DOMAIN TLSLookup
                                 THEN TLSLookup[self.TLSMinVersion] ELSE 0]
  IN  IF ~self.TLS THEN [err |-> NoErr, tls |-> FALSE, tlsConfig |-> NoTLS]
      ELSE IF withCerts /\ self.certificate # "" /\ self.privateKey = ""
        THEN [err |-> "found certificate for TLS authentication but no private key",
              tls |-> TRUE, tlsConfig |-> NoTLS]
      ELSE IF self.TLSMinVersion # "" /\ self.TLSMinVersion \notin DOMAIN TLSLookup
        THEN [err |-> "invalid 'tls_min_version' in config", tls |-> TRUE, tlsConfig |-> NoTLS]
      ELSE [err |-> NoErr, tls |-> TRUE, tlsConfig |-> cfg]

(***************************************************************************)
(* isTokenSufficientAccess over the records GetAuthorizations returned: a  *)
(* scan that raises four flags from the permissions of the records whose   *)
(* token equals the given one.                                             *)
(***************************************************************************)
Perm(a, t) == [Action |-> a, Type |-> t]

NoFlags ==
  [hasUserRead |-> FALSE, hasUserWrite |-> FALSE,
   hasOrganizationsRead |-> FALSE, hasOrganizationsWrite |-> FALSE]

Has(perms, a, t) == \E permission \in perms : permission.Action = a /\ permission.Type = t

RECURSIVE ScanAuthorizations(_, _, _, _)
ScanAuthorizations(authorizations, token, k, flags) ==
  IF k > Len(authorizations) THEN flags
  ELSE LET authorization == authorizations[k]
           next == IF authorization.Token = token
                     THEN [hasUserRead |->
                             flags.hasUserRead \/ Has(authorization.Permissions, "read", "users"),
                           hasUserWrite |->
                             flags.hasUserWrite \/ Has(authorization.Permissions, "write", "users"),
                           hasOrganizationsRead |->
                             flags.hasOrganizationsRead \/ Has(authorization.Permissions, "read", "orgs"),
                           hasOrganizationsWrite |->
                             flags.hasOrganizationsWrite \/ Has(authorization.Permissions, "write", "orgs")]
                     ELSE flags
       IN  ScanAuthorizations(authorizations, token, k + 1, next)

\* The decision with the test of the record's token left out: the permissions
\* of every record count, whichever token they belong to.
isTokenSufficientAccessAnyToken(authorizations, token) ==
  \A a \in {"read", "write"}, t \in {"users", "orgs"} :
    \E k \in DOMAIN authorizations : Has(authorizations[k].Permissions, a, t)

isTokenSufficientAccess(authorizations, token) ==
  LET flags == ScanAuthorizations(authorizations, token, 1, NoFlags)
  IN  flags.hasUserRead /\ flags.hasUserWrite
        /\ flags.hasOrganizationsRead /\ flags.hasOrganizationsWrite

(***************************************************************************)
(* The server.  The four permissions the producer requires, the records    *)
(* the authorization query returns, and the record lists of the model.     *)
(***************************************************************************)
RequiredPermissions ==
  {Perm("read", "users"), Perm("write", "users"), Perm("read", "orgs"), Perm("write", "orgs")}

Permissions == RequiredPermissions \cup {Perm("read", "buckets")}

Authorizations == [Token : Tokens, Permissions : SUBSET Permissions]

\* Every list of at most MaxRecords authorization records.
RecordLists == UNION {[1..n -> Authorizations] : n \in 0..MaxRecords}

\* The servers of the lifecycle specifications: on the first, tA holds the
\* four permissions across two records and tB holds three of them; on the
\* second, tB holds them all and tA has no record.
ServerAuthz ==
  {<<[Token |-> "tA", Permissions |-> {Perm("read", "users"), Perm("write", "users")}],
     [Token |-> "tA", Permissions |-> {Perm("read", "orgs"), Perm("write", "orgs")}],
     [Token |-> "tB", Permissions |-> RequiredPermissions \ {Perm("write", "orgs")}]>>,
   <<[Token |-> "tB", Permissions |-> Permissions]>>}

(***************************************************************************)
(* State.                                                                  *)
(***************************************************************************)
VARIABLES
  i,          \* the producer (the receiver of the methods)
  mu,         \* the producer's sync.Mutex: 0 when free, else the thread holding it
  pc,         \* pc[p]: where thread p is in the method it is running
  fr,         \* fr[p]: the arguments and local variables of that call
  created,    \* clients constructed so far, numbered 1..created
  closed,     \* the clients on which Close() was called
  authz,      \* the authorization records the server holds
  inits,      \* Initialize calls started
  passed,     \* some Initialize call got past validation and certificate parsing
  succeeded,  \* some Initialize call returned without error
  last,       \* the most recent call that returned: what it was and what it returned
  verdict     \* the last decision of isTokenSufficientAccess taken on its own

vars == <<i, mu, pc, fr, created, closed, authz, inits, passed, succeeded, last, verdict>>

IdleFrame ==
  [op |-> "none", cfg |-> NilConfig, verify |-> FALSE, seen |-> 0, cli |-> 0,
   err |-> NoErr, ret |-> 0, net |-> <<>>, miss |-> FALSE, opts |-> NoOptions]

NoCall == [op |-> "none", err |-> NoErr, ret |-> 0, net |-> <<>>, miss |-> FALSE]

Returned(f) == [op |-> f.op, err |-> f.err, ret |-> f.ret, net |-> f.net, miss |-> f.miss]

NoVerdict == [token |-> "", ok |-> FALSE, done |-> FALSE]

InitCommon ==
  /\ i = NewProducer
  /\ mu = 0
  /\ pc = [p \in Procs |-> "idle"]
  /\ fr = [p \in Procs |-> IdleFrame]
  /\ created = 0
  /\ closed = {}
  /\ inits = 0
  /\ passed = FALSE
  /\ succeeded = FALSE
  /\ last = NoCall
  /\ verdict = NoVerdict

Init ==
  /\ InitCommon
  /\ authz \in ServerAuthz

\* A call that may construct a client starts only while the budget of
\* MaxHandles covers it and every call already under way.
MayConstruct(q) ==
  /\ pc[q] \in {"I_lock", "I_decode", "I_certs", "C_init", "C_client", "K_build"}
  /\ fr[q].op = "Connection" \/ fr[q].verify

HandleBudget == created + Cardinality({q \in Procs : MayConstruct(q)}) < MaxHandles

\* Where Connection() returns to: its caller, or the Initialize that called it.
ConnectionDone(p) == IF fr[p].op = "Initialize" THEN "I_return" ELSE "C_return"

(***************************************************************************)
(* Initialize(ctx, req).                                                   *)
(***************************************************************************)
CallInitialize(p, cfg, verify) ==
  /\ pc[p] = "idle"
  /\ inits < MaxInits
  /\ verify => HandleBudget
  /\ pc' = [pc EXCEPT ![p] = "I_lock"]
  /\ fr' = [fr EXCEPT ![p] = [IdleFrame EXCEPT !.op = "Initialize", !.cfg = cfg, !.verify = verify]]
  /\ inits' = inits + 1
  /\ UNCHANGED <<i, mu, created, closed, authz, passed, succeeded, last, verdict>>

\* i.Lock(); defer i.Unlock()
InitializeLock(p) ==
  /\ pc[p] = "I_lock"
  /\ mu = 0
  /\ mu' = p
  /\ pc' = [pc EXCEPT ![p] = "I_decode"]
  /\ UNCHANGED <<i, fr, created, closed, authz, inits, passed, succeeded, last, verdict>>

\* Lines 81-104.
InitializeDecode(p) ==
  /\ pc[p] = "I_decode"
  /\ LET r == DecodeConfig(i, fr[p].cfg)
     IN  /\ i' = r.out
         /\ fr' = [fr EXCEPT ![p].cfg = NilConfig, ![p].err = r.err]
         /\ pc' = [pc EXCEPT ![p] = IF r.err = NoErr THEN "I_certs" ELSE "I_return"]
  /\ UNCHANGED <<mu, created, closed, authz, inits, passed, succeeded, last, verdict>>

\* Lines 106-146: the certificate material, the initialized flag, and the
\* call of Connection() when the request asks to verify the connection.
InitializeCerts(p) ==
  /\ pc[p] = "I_certs"
  /\ LET r == AssembleCertificates(i)
     IN  /\ i' = r.out
         /\ fr' = [fr EXCEPT ![p].err = r.err]
         /\ passed' = (passed \/ r.err = NoErr)
         /\ pc' = [pc EXCEPT ![p] = IF r.err # NoErr THEN "I_return"
                                    ELSE IF fr[p].verify THEN "C_init"
                                    ELSE "I_return"]
  /\ UNCHANGED <<mu, created, closed, authz, inits, succeeded, last, verdict>>

\* InitializeReturn releasing the lock only when Initialize succeeded.
InitializeReturnKeepsLockOnError(p) ==
  /\ pc[p] = "I_return"
  /\ mu' = IF fr[p].err = NoErr THEN 0 ELSE mu
  /\ succeeded' = (succeeded \/ fr[p].err = NoErr)
  /\ last' = Returned(fr[p])
  /\ pc' = [pc EXCEPT ![p] = "idle"]
  /\ fr' = [fr EXCEPT ![p] = IdleFrame]
  /\ UNCHANGED <<i, created, closed, authz, inits, passed, verdict>>

\* The return of Initialize, with the deferred Unlock.
InitializeReturn(p) ==
  /\ pc[p] = "I_return"
  /\ mu' = 0
  /\ succeeded' = (succeeded \/ fr[p].err = NoErr)
  /\ last' = Returned(fr[p])
  /\ pc' = [pc EXCEPT ![p] = "idle"]
  /\ fr' = [fr EXCEPT ![p] = IdleFrame]
  /\ UNCHANGED <<i, created, closed, authz, inits, passed, verdict>>

(***************************************************************************)
(* Connection(ctx).  It takes no lock: it runs under the lock of the       *)
(* Initialize that calls it, and under none when called on its own.        *)
(***************************************************************************)
CallConnection(p) ==
  /\ pc[p] = "idle"
  /\ HandleBudget
  /\ pc' = [pc EXCEPT ![p] = "C_init"]
  /\ fr' = [fr EXCEPT ![p] = [IdleFrame EXCEPT !.op = "Connection"]]
  /\ UNCHANGED <<i, mu, created, closed, authz, inits, passed, succeeded, last, verdict>>

\* Lines 156-158.
ConnectionCheckInitialized(p) ==
  /\ pc[p] = "C_init"
  /\ IF i.Initialized
       THEN /\ pc' = [pc EXCEPT ![p] = "C_client"]
            /\ fr' = fr
       ELSE /\ pc' = [pc EXCEPT ![p] = ConnectionDone(p)]
            /\ fr' = [fr EXCEPT ![p].err = "ErrNotInitialized"]
  /\ UNCHANGED <<i, mu, created, closed, authz, inits, passed, succeeded, last, verdict>>

\* Line 161: the test of i.client.
ConnectionCheckClient(p) ==
  /\ pc[p] = "C_client"
  /\ IF i.client # 0
       THEN /\ pc' = [pc EXCEPT ![p] = "C_cached"]
            /\ fr' = [fr EXCEPT ![p].seen = i.client]
       ELSE /\ pc' = [pc EXCEPT ![p] = "K_build"]
            /\ fr' = [fr EXCEPT ![p].miss = TRUE]
  /\ UNCHANGED <<i, mu, created, closed, authz, inits, passed, succeeded, last, verdict>>

\* Line 162: return i.client.  The field is read a second time without the
\* lock; when another thread wrote it since the test, the build may return
\* the value the test saw or the value the field holds now.
ConnectionReturnCached(p) ==
  /\ pc[p] = "C_cached"
  /\ \E h \in {fr[p].seen, i.client} :
       fr' = [fr EXCEPT ![p].ret = h]
  /\ pc' = [pc EXCEPT ![p] = ConnectionDone(p)]
  /\ UNCHANGED <<i, mu, created, closed, authz, inits, passed, succeeded, last, verdict>>

\* createClientBuild caching the client as soon as it is constructed, before
\* the probe and the permission check.
createClientBuildCachesEarly(p) ==
  /\ pc[p] = "K_build"
  /\ LET r == BuildTLSConfig(i)
     IN  IF r.err # NoErr
           THEN /\ fr' = [fr EXCEPT ![p].err = r.err]
                /\ pc' = [pc EXCEPT ![p] = ConnectionDone(p)]
                /\ created' = created
                /\ i' = i
           ELSE /\ created < MaxHandles
                /\ created' = created + 1
                /\ i' = [i EXCEPT !.client = created + 1]
                /\ fr' = [fr EXCEPT ![p].cli = created + 1, ![p].net = <<"dial">>,
                                     ![p].opts = [tls |-> r.tls, tlsConfig |-> r.tlsConfig]]
                /\ pc' = [pc EXCEPT ![p] = "K_ping"]
  /\ UNCHANGED <<mu, closed, authz, inits, passed, succeeded, last, verdict>>

\* Lines 191-239 of createClient: the TLS configuration and the client.
createClientBuild(p) ==
  /\ pc[p] = "K_build"
  /\ LET r == BuildTLSConfig(i)
     IN  IF r.err # NoErr
           THEN /\ fr' = [fr EXCEPT ![p].err = r.err]
                /\ pc' = [pc EXCEPT ![p] = ConnectionDone(p)]
                /\ created' = created
           ELSE /\ created < MaxHandles
                /\ created' = created + 1
                /\ fr' = [fr EXCEPT ![p].cli = created + 1, ![p].net = <<"dial">>,
                                     ![p].opts = [tls |-> r.tls, tlsConfig |-> r.tlsConfig]]
                /\ pc' = [pc EXCEPT ![p] = "K_ping"]
  /\ UNCHANGED <<i, mu, closed, authz, inits, passed, succeeded, last, verdict>>

\* Lines 241-245: cli.Ping.  On an error createClient returns without
\* closing the client it constructed.
createClientPing(p, ok) ==
  /\ pc[p] = "K_ping"
  /\ IF ok
       THEN /\ fr' = [fr EXCEPT ![p].net = Append(@, "ping")]
            /\ pc' = [pc EXCEPT ![p] = "K_access"]
       ELSE /\ fr' = [fr EXCEPT ![p].net = Append(@, "ping"), ![p].cli = 0,
                                ![p].err = "error checking cluster status"]
            /\ pc' = [pc EXCEPT ![p] = ConnectionDone(p)]
  /\ UNCHANGED <<i, mu, created, closed, authz, inits, passed, succeeded, last, verdict>>

\* Lines 247-256: isTokenSufficientAccess(ctx, cli, i.Token).  It returns an
\* error both when the query fails and when the token is insufficient, so
\* createClient returns at line 250 in both cases, the client left open.
createClientAccess(p, ok) ==
  /\ pc[p] = "K_access"
  /\ IF ok /\ isTokenSufficientAccess(authz, i.Token)
       THEN /\ fr' = [fr EXCEPT ![p].net = Append(@, "authz")]
            /\ pc' = [pc EXCEPT ![p] = "C_store"]
       ELSE /\ fr' = [fr EXCEPT ![p].net = Append(@, "authz"), ![p].cli = 0,
                                ![p].err = IF ok THEN "insufficient permissions"
                                           ELSE "cannot access authorizations API"]
            /\ pc' = [pc EXCEPT ![p] = ConnectionDone(p)]
  /\ UNCHANGED <<i, mu, created, closed, authz, inits, passed, succeeded, last, verdict>>

\* ConnectionStore returning the client without storing it in i.client.
ConnectionStoreSkipsCache(p) ==
  /\ pc[p] = "C_store"
  /\ fr' = [fr EXCEPT ![p].ret = fr[p].cli]
  /\ pc' = [pc EXCEPT ![p] = ConnectionDone(p)]
  /\ UNCHANGED <<i, mu, created, closed, authz, inits, passed, succeeded, last, verdict>>

\* Lines 170-173: i.client = cli; return cli, nil.
ConnectionStore(p) ==
  /\ pc[p] = "C_store"
  /\ i' = [i EXCEPT !.client = fr[p].cli]
  /\ fr' = [fr EXCEPT ![p].ret = fr[p].cli]
  /\ pc' = [pc EXCEPT ![p] = ConnectionDone(p)]
  /\ UNCHANGED <<mu, created, closed, authz, inits, passed, succeeded, last, verdict>>

\* The return of a Connection() called on its own.
ConnectionReturn(p) ==
  /\ pc[p] = "C_return"
  /\ last' = Returned(fr[p])
  /\ pc' = [pc EXCEPT ![p] = "idle"]
  /\ fr' = [fr EXCEPT ![p] = IdleFrame]
  /\ UNCHANGED <<i, mu, created, closed, authz, inits, passed, succeeded, verdict>>

(***************************************************************************)
(* Close().                                                                *)
(***************************************************************************)
CallClose(p) ==
  /\ pc[p] = "idle"
  /\ pc' = [pc EXCEPT ![p] = "X_lock"]
  /\ fr' = [fr EXCEPT ![p] = [IdleFrame EXCEPT !.op = "Close"]]
  /\ UNCHANGED <<i, mu, created, closed, authz, inits, passed, succeeded, last, verdict>>

CloseLock(p) ==
  /\ pc[p] = "X_lock"
  /\ mu = 0
  /\ mu' = p
  /\ pc' = [pc EXCEPT ![p] = "X_close"]
  /\ UNCHANGED <<i, fr, created, closed, authz, inits, passed, succeeded, last, verdict>>

\* CloseClient closing the client and leaving it in i.client.
CloseClientKeepsHandle(p) ==
  /\ pc[p] = "X_close"
  /\ closed' = IF i.client # 0 THEN closed \cup {i.client} ELSE closed
  /\ pc' = [pc EXCEPT ![p] = "X_return"]
  /\ UNCHANGED <<i, mu, fr, created, authz, inits, passed, succeeded, last, verdict>>

\* Lines 181-185.
CloseClient(p) ==
  /\ pc[p] = "X_close"
  /\ closed' = IF i.client # 0 THEN closed \cup {i.client} ELSE closed
  /\ i' = [i EXCEPT !.client = 0]
  /\ pc' = [pc EXCEPT ![p] = "X_return"]
  /\ UNCHANGED <<mu, fr, created, authz, inits, passed, succeeded, last, verdict>>

CloseReturn(p) ==
  /\ pc[p] = "X_return"
  /\ mu' = 0
  /\ last' = Returned(fr[p])
  /\ pc' = [pc EXCEPT ![p] = "idle"]
  /\ fr' = [fr EXCEPT ![p] = IdleFrame]
  /\ UNCHANGED <<i, created, closed, authz, inits, passed, succeeded, verdict>>

(***************************************************************************)
(* isTokenSufficientAccess applied on its own to the records of the        *)
(* server and a token.                                                     *)
(***************************************************************************)
CheckAccess(token) ==
  /\ verdict' = [token |-> token, ok |-> isTokenSufficientAccess(authz, token), done |-> TRUE]
  /\ UNCHANGED <<i, mu, pc, fr, created, closed, authz, inits, passed, succeeded, last>>

(***************************************************************************)
(* Specifications.                                                         *)
(***************************************************************************)
InitializeSteps(p) ==
  \/ InitializeLock(p)
  \/ InitializeDecode(p)
  \/ InitializeCerts(p)
  \/ InitializeReturn(p)

ConnectionSteps(p) ==
  \/ ConnectionCheckInitialized(p)
  \/ ConnectionCheckClient(p)
  \/ ConnectionReturnCached(p)
  \/ createClientBuild(p)
  \/ \E ok \in BOOLEAN : createClientPing(p, ok)
  \/ \E ok \in BOOLEAN : createClientAccess(p, ok)
  \/ ConnectionStore(p)

CloseSteps(p) ==
  \/ CloseLock(p)
  \/ CloseClient(p)
  \/ CloseReturn(p)

\* The one caller of the sequential specifications.
Caller == CHOOSE p \in Procs : \A q \in Procs : p <= q

\* Configurations of the lifecycle specification: a valid one with a
\* sufficient token, one with an insufficient token, one that fails
\* validation, one whose certificate comes without a private key.
LifeConfigs ==
  {GoodConfig,
   [GoodConfig EXCEPT !["token"] = "tB"],
   [EmptyConfig EXCEPT !["Initialized"] = "true"],
   [GoodConfig EXCEPT !["pem_bundle"] = "pemCertOnly"]}

\* Spec: one caller, one call at a time, every call running to its return.
Next ==
  \/ \E cfg \in LifeConfigs, verify \in BOOLEAN : CallInitialize(Caller, cfg, verify)
  \/ CallConnection(Caller)
  \/ CallClose(Caller)
  \/ InitializeSteps(Caller)
  \/ ConnectionSteps(Caller)
  \/ ConnectionReturn(Caller)
  \/ CloseSteps(Caller)

Spec == Init /\ [][Next]_vars

\* SpecConfig: one caller, Initialize alone, over the configurations Configs.
NextConfig ==
  \/ \E cfg \in Configs, verify \in BOOLEAN : CallInitialize(Caller, cfg, verify)
  \/ InitializeSteps(Caller)
  \/ ConnectionSteps(Caller)

SpecConfig == Init /\ [][NextConfig]_vars

\* SpecConc: NumProcs callers whose steps interleave.
ConcConfigs == {GoodConfig, [GoodConfig EXCEPT !["token"] = "tB"]}

NextConc ==
  \E p \in Procs :
    \/ \E cfg \in ConcConfigs, verify \in BOOLEAN : CallInitialize(p, cfg, verify)
    \/ CallConnection(p)
    \/ CallClose(p)
    \/ InitializeSteps(p)
    \/ ConnectionSteps(p)
    \/ ConnectionReturn(p)
    \/ CloseSteps(p)

SpecConc == Init /\ [][NextConc]_vars

\* SpecTLS: one caller, the whole lifecycle, over configurations that turn
\* TLS on, name a minimum version, or carry certificate material.
TLSConfigs ==
  {[GoodConfig EXCEPT !["tls"] = "true"],
   [GoodConfig EXCEPT !["tls"] = "true", !["tls_min_version"] = "bogus"],
   [GoodConfig EXCEPT !["tls"] = "true", !["tls_min_version"] = "tls12"],
   [GoodConfig EXCEPT !["tls_min_version"] = "bogus"],
   [GoodConfig EXCEPT !["pem_bundle"] = "pemFull"],
   [GoodConfig EXCEPT !["pem_bundle"] = "pemCertOnly"],
   [GoodConfig EXCEPT !["pem_json"] = "jsonCertOnly"],
   [GoodConfig EXCEPT !["pem_json"] = "jsonCA", !["tls_min_version"] = "bogus"]}

NextTLS ==
  \/ \E cfg \in TLSConfigs, verify \in BOOLEAN : CallInitialize(Caller, cfg, verify)
  \/ CallConnection(Caller)
  \/ CallClose(Caller)
  \/ InitializeSteps(Caller)
  \/ ConnectionSteps(Caller)
  \/ ConnectionReturn(Caller)
  \/ CloseSteps(Caller)

SpecTLS == Init /\ [][NextTLS]_vars

\* SpecLive: the callers of SpecConc under fair scheduling.  A thread that
\* can take a step of the method it is running eventually takes it (every
\* network operation returns); a thread waiting for the lock gets it if the
\* lock is free again and again (the lock is fair).  Nothing obliges a caller
\* to start a call.
LiveConfigs ==
  {GoodConfig, EmptyConfig, [GoodConfig EXCEPT !["pem_bundle"] = "pemBad"]}

\* The steps of thread p that need no lock to be free.
Running(p) ==
  \/ InitializeDecode(p)
  \/ InitializeCerts(p)
  \/ InitializeReturn(p)
  \/ ConnectionSteps(p)
  \/ ConnectionReturn(p)
  \/ CloseClient(p)
  \/ CloseReturn(p)

NextLive ==
  \E p \in Procs :
    \/ \E cfg \in LiveConfigs, verify \in BOOLEAN : CallInitialize(p, cfg, verify)
    \/ CallConnection(p)
    \/ CallClose(p)
    \/ InitializeLock(p)
    \/ CloseLock(p)
    \/ Running(p)

Fairness ==
  \A p \in Procs :
    /\ WF_vars(Running(p))
    /\ SF_vars(InitializeLock(p))
    /\ SF_vars(CloseLock(p))

SpecLive == Init /\ [][NextLive]_vars /\ Fairness

\* SpecPerm: the permission decision over every record list and token.
InitPerm ==
  /\ InitCommon
  /\ authz \in RecordLists

NextPerm == \E token \in Tokens : CheckAccess(token)

SpecPerm == InitPerm /\ [][NextPerm]_vars

(***************************************************************************)
(* Properties.                                                             *)
(***************************************************************************)
\* The permissions the server's records grant to a token: the union over the
\* records whose token equals it.
Granted(token) ==
  UNION {authz[k].Permissions : k \in {n \in DOMAIN authz : authz[n].Token = token}}

HoldsAllFour(token) == RequiredPermissions \subseteq Granted(token)

FullSequence == <<"dial", "ping", "authz">>

\* The clients that were constructed and not closed.
Live == (1..created) \ closed

Idle == \A p \in Procs : pc[p] = "idle"

\* Thread p is at the return of a Connection() call, on its own or inside
\* Initialize, that hands back a client and no error.
ReturnsClient(p) ==
  /\ pc[p] \in {"C_return", "I_return"}
  /\ fr[p].err = NoErr
  /\ fr[p].ret # 0

\* C1 (stated as claimed; the code violates it).  Fail-closed acceptance:
\* with the server's records fixed, a Connection() call returns a client
\* without error only when the token the producer is configured with at that
\* moment holds all four required permissions.
C1_FailClosed == \A p \in Procs : ReturnsClient(p) => HoldsAllFour(i.Token)

\* C2 (stated as claimed; the code violates it).  At most one
\* dial / probe / permission-check sequence is in flight at any time: at
\* most one thread is between the construction of a client and the end of
\* its permission check.
InFlight(p) == pc[p] \in {"K_ping", "K_access"}

C2_OneSequenceInFlight == Cardinality({p \in Procs : InFlight(p)}) <= 1

\* C3 (stated as claimed; the code violates it).  At most one client the
\* producer constructed is live, and when no call is running the only live
\* client is the cached one.
C3_OneLiveHandle ==
  /\ Cardinality(Live) <= 1
  /\ Idle => Live \subseteq {i.client}

\* C4.  Two Connection() calls in succession, nothing between them: when the
\* first returned a client, the second returns the same client without an
\* error and without a network operation, and the first, if it missed the
\* cache, performed exactly the one dial / probe / permission-check sequence.
C4_SecondCallReusesHandle ==
  \A p \in Procs :
    (pc[p] = "C_return" /\ last.op = "Connection" /\ last.err = NoErr) =>
      /\ last.ret # 0
      /\ fr[p].err = NoErr
      /\ fr[p].ret = last.ret
      /\ fr[p].net = <<>>
      /\ last.miss => last.net = FullSequence

C4_Witness ==
  \E p \in Procs :
    /\ pc[p] = "C_return"
    /\ last.op = "Connection" /\ last.err = NoErr /\ last.miss
    /\ fr[p].ret = last.ret /\ fr[p].ret # 0

\* C5.  The Connection() call that follows a Close(): it never returns a
\* closed client; unless the producer is not initialized it misses the
\* cache; when it returns without error it returns the client it
\* constructed itself, after the full dial / probe / permission-check
\* sequence; and when it returns an error it returns no client.
C5_NoStaleHandleAfterClose ==
  \A p \in Procs :
    (pc[p] = "C_return" /\ last.op = "Close") =>
      /\ fr[p].ret \notin closed
      /\ fr[p].err # "ErrNotInitialized" => fr[p].miss
      /\ fr[p].err = NoErr =>
           fr[p].ret # 0 /\ fr[p].ret = fr[p].cli /\ fr[p].net = FullSequence
      /\ fr[p].err # NoErr => fr[p].ret = 0

C5_Witness ==
  \E p \in Procs :
    /\ pc[p] = "C_return" /\ last.op = "Close"
    /\ closed # {}
    /\ fr[p].err = NoErr /\ fr[p].ret \in Live

\* C6.  A Connection() that missed the cache and failed leaves the cached
\* client empty, and the Connection() call after it misses the cache again
\* and, to return a client, performs the whole sequence on a client it
\* constructs itself.
C6_FailureLeavesNoHandle ==
  \A p \in Procs :
    /\ (pc[p] \in {"C_return", "I_return"} /\ fr[p].miss /\ fr[p].err # NoErr) =>
         i.client = 0 /\ fr[p].ret = 0
    /\ (pc[p] = "C_return" /\ last.miss /\ last.err # NoErr) =>
         /\ fr[p].miss
         /\ fr[p].err = NoErr =>
              fr[p].net = FullSequence /\ fr[p].ret = fr[p].cli /\ fr[p].ret = created

C6_Witness ==
  \E p \in Procs :
    /\ pc[p] = "C_return"
    /\ last.op = "Connection" /\ last.miss /\ last.err = "error checking cluster status"
    /\ fr[p].err = NoErr /\ fr[p].ret # 0 /\ i.client = fr[p].ret

\* C7 (stated as claimed; the code violates it).  Connection() on a
\* producer on which no Initialize call ever got past validation and
\* certificate parsing fails with the not-initialized error and performs no
\* network operation.  (The claim says "has ever succeeded", which covers
\* more producers; this is the part of it that a failed connection
\* verification does not touch.)
C7_NotInitialized ==
  \A p \in Procs :
    (pc[p] = "C_return" /\ ~passed) =>
      fr[p].err = "ErrNotInitialized" /\ fr[p].net = <<>> /\ i.client = 0

\* C8 (stated as claimed; the code violates it).  An Initialize whose
\* configuration has an empty host or an empty token fails with a
\* validation error before any network operation, and leaves an
\* uninitialized producer uninitialized.
EmptyValue(v) == v \in {Absent, ""}

ValidationErrors ==
  {"decode", "invalid connect_timeout", "host cannot be empty", "token cannot be empty"}

C8_MissingHostOrToken ==
  [][\A p \in Procs :
       (/\ pc[p] = "I_decode"
        /\ pc'[p] # "I_decode"
        /\ EmptyValue(fr[p].cfg["host"]) \/ EmptyValue(fr[p].cfg["token"])) =>
         /\ pc'[p] = "I_return"
         /\ fr'[p].err \in ValidationErrors
         /\ ~i.Initialized => ~i'.Initialized]_vars

\* C9 (stated as claimed; the code violates it).  An Initialize that fails
\* on the connect timeout leaves the raw configuration, host, token, port,
\* TLS settings, certificate material, initialized flag and cached client as
\* they were.
PersistedFields(self) ==
  <<self.rawConfig, self.Host, self.Token, self.Port, self.TLS, self.InsecureTLS,
    self.TLSMinVersion, self.PemBundle, self.PemJSON, self.certificate,
    self.privateKey, self.issuingCA, self.Initialized, self.client>>

C9_TimeoutFailurePersistsNothing ==
  [][\A p \in Procs :
       (/\ pc[p] = "I_decode"
        /\ pc'[p] = "I_return"
        /\ fr'[p].err = "invalid connect_timeout") =>
         PersistedFields(i') = PersistedFields(i)]_vars

\* C10.  The decision of isTokenSufficientAccess: a token is accepted
\* exactly when the union of the permissions of the records carrying that
\* token holds read and write on users and on organizations (the server's
\* resource type "orgs").
C10_AcceptIffAllFour ==
  /\ \A token \in Tokens : isTokenSufficientAccess(authz, token) <=> HoldsAllFour(token)
  /\ verdict.done => (verdict.ok <=> HoldsAllFour(verdict.token))

\* A token rejected with three of the four permissions, the fourth being
\* granted to another token.
C10_Witness ==
  /\ verdict.done /\ ~verdict.ok
  /\ Cardinality(RequiredPermissions \cap Granted(verdict.token)) = 3
  /\ \E other \in Tokens \ {verdict.token} :
       RequiredPermissions \subseteq Granted(verdict.token) \cup Granted(other)

\* C11 (stated as claimed; the code violates it).  An Initialize with
\* verifyConnection false that returns without error leaves the producer
\* initialized and the cached client empty, whatever state it started from.
C11_InitializeLeavesNoConnection ==
  \A p \in Procs :
    (pc[p] = "I_return" /\ ~fr[p].verify /\ fr[p].err = NoErr) =>
      i.Initialized /\ i.client = 0

\* C12.  An Initialize with verifyConnection true that got past the
\* configuration and certificate validation and returns the error of its
\* connection attempt leaves the producer initialized and the cached client
\* empty, and the Connection() call after it does not fail with the
\* not-initialized error.
CertificateErrors == {"could not parse given JSON", "Error parsing the given PEM information"}

VerificationFailed(f) ==
  f.err \notin ValidationErrors \cup CertificateErrors \cup {NoErr}

C12_FailedVerificationStaysInitialized ==
  \A p \in Procs :
    /\ (pc[p] = "I_return" /\ fr[p].verify /\ VerificationFailed(fr[p])) =>
         i.Initialized /\ i.client = 0 /\ fr[p].ret = 0
    /\ (pc[p] = "C_return" /\ last.op = "Initialize" /\ VerificationFailed(last)) =>
         fr[p].err # "ErrNotInitialized"

C12_Witness ==
  \E p \in Procs :
    /\ pc[p] = "C_return"
    /\ last.op = "Initialize" /\ last.miss /\ last.err = "insufficient permissions"
    /\ i.Initialized /\ fr[p].miss

\* C13 (stated as claimed; the code violates it).  Wholesale replacement:
\* after a successful Initialize(cfg) the stored configuration and
\* certificate material are what Initialize(cfg) stores on a new producer,
\* whatever earlier Initialize calls stored; and when cfg supplies neither
\* bundle, the TLS flag is cfg's boolean (false if absent) and the
\* certificate fields are empty.
StoredConfig(self) ==
  <<self.Host, self.Token, self.Port, self.TLS, self.InsecureTLS, self.TLSMinVersion,
    self.PemBundle, self.PemJSON, self.certificate, self.privateKey, self.issuingCA>>

\* What Initialize(cfg) stores on a producer no Initialize call has touched.
FreshInitialize(cfg) == AssembleCertificates(DecodeConfig(NewProducer, cfg).out).out

C13_WholesaleReplacement ==
  \A p \in Procs :
    (pc[p] = "I_return" /\ fr[p].err = NoErr) =>
      /\ StoredConfig(i) = StoredConfig(FreshInitialize(i.rawConfig))
      /\ (EmptyValue(i.rawConfig["pem_json"]) /\ EmptyValue(i.rawConfig["pem_bundle"])) =>
           /\ i.TLS = (i.rawConfig["tls"] = "true")
           /\ i.certificate = "" /\ i.privateKey = "" /\ i.issuingCA = ""

\* C14.  Close() in any state: it returns no error and leaves the cached
\* client empty; the client it closes is the cached one and was not closed
\* before; and a Close() that follows a Close() changes nothing in the
\* producer and closes nothing.
C14_CloseIdempotent ==
  [][\A p \in Procs :
       (pc[p] = "X_close" /\ pc'[p] # "X_close") =>
         /\ pc'[p] = "X_return"
         /\ fr'[p].err = NoErr
         /\ i'.client = 0
         /\ closed' = IF i.client # 0 THEN closed \cup {i.client} ELSE closed
         /\ i.client \notin closed
         /\ last.op = "Close" => (i' = i /\ closed' = closed)]_vars

\* A second Close() in succession, the first having closed a client.
C14_Witness ==
  \E p \in Procs :
    /\ pc[p] = "X_return"
    /\ last.op = "Close"
    /\ closed # {}
    /\ i.Initialized /\ i.client = 0

\* C15 (stated as claimed; the code violates it).  Lock discipline: a
\* thread about to read i.client in Connection() (lines 161, 162) or to write
\* it (line 171 of Connection, line 185 of Close) holds the producer's lock.
AtClientAccess(p) == pc[p] \in {"C_client", "C_cached", "C_store", "X_close"}

C15_ClientAccessUnderLock == \A p \in Procs : AtClientAccess(p) => mu = p

\* C16 (stated as claimed; the code violates it).  A connection attempt
\* that ends with the permission error leaves the client it constructed
\* neither cached nor open.
C16_RejectedHandleClosed ==
  \A p \in Procs :
    (/\ pc[p] \in {"C_return", "I_return"}
     /\ fr[p].err = "insufficient permissions") =>
      /\ i.client = 0
      /\ created \in closed

\* C19 (stated as claimed; the code violates it).  With Close() calls
\* running beside it, a Connection() called on its own that returns no error
\* returns a client: never the pair (nil, nil).
C19_NeverNilWithoutError ==
  \A p \in Procs :
    (pc[p] = "C_return" /\ fr[p].err = NoErr) => fr[p].ret # 0

\* C17.  With TLS enabled and a minimum-version name the lookup table does
\* not hold, createClient ends with a configuration error before a client is
\* constructed: no dial, probe or authorization query, nothing cached, and
\* the error is the one about tls_min_version unless the earlier check of
\* the certificate's private key has already failed.  With TLS enabled, no
\* name and that earlier check passed, the client is constructed with the
\* minimum version 0.
ConfigurationErrors ==
  {"invalid 'tls_min_version' in config",
   "found certificate for TLS authentication but no private key"}

KeyMissing(self) == self.certificate # "" /\ self.privateKey = ""

C17_UnknownMinVersionFailsBeforeDial ==
  [][\A p \in Procs :
       (pc[p] = "K_build" /\ pc'[p] # "K_build" /\ i.TLS) =>
         /\ (i.TLSMinVersion # "" /\ i.TLSMinVersion \notin DOMAIN TLSLookup) =>
              /\ pc'[p] = ConnectionDone(p)
              /\ fr'[p].err \in ConfigurationErrors
              /\ ~KeyMissing(i) => fr'[p].err = "invalid 'tls_min_version' in config"
              /\ fr'[p].net = <<>> /\ fr'[p].ret = 0 /\ fr'[p].cli = 0
              /\ created' = created
              /\ i'.client = 0
         /\ (i.TLSMinVersion = "" /\ ~KeyMissing(i)) =>
              /\ pc'[p] = "K_ping"
              /\ fr'[p].net = <<"dial">>
              /\ fr'[p].opts.tls
              /\ fr'[p].opts.tlsConfig.MinVersion = 0]_vars

\* A Connection() called on its own that missed the cache and failed on the
\* unknown name, the certificate material being an issuing CA alone.
C17_Witness ==
  \E p \in Procs :
    /\ pc[p] = "C_return"
    /\ fr[p].miss /\ fr[p].net = <<>>
    /\ fr[p].err = "invalid 'tls_min_version' in config"
    /\ i.TLS /\ i.issuingCA # "" /\ i.client = 0

\* C18 (stated as claimed; the code violates it).  On an initialized
\* producer a stored certificate comes with a stored private key, and no
\* client is ever constructed from a certificate without a private key.
C18_CertificateImpliesKey ==
  /\ (i.Initialized /\ i.certificate # "") => i.privateKey # ""
  /\ \A p \in Procs :
       pc[p] \in {"K_ping", "K_access", "C_store"} =>
         (fr[p].opts.tlsConfig.clientCert # "" => i.privateKey # "")

\* C20.  Deadlock freedom under fair scheduling: every call a thread has
\* started returns, the lock is free whenever no call is in progress, and
\* the lock is held only by a thread inside Initialize or Close (the
\* Connection() that Initialize calls runs under the lock its caller holds
\* and asks for none).
Holder(p) == pc[p] \in
  {"I_decode", "I_certs", "I_return", "X_close", "X_return"}
    \cup (IF fr[p].op = "Initialize"
            THEN {"C_init", "C_client", "C_cached", "K_build", "K_ping", "K_access", "C_store"}
            ELSE {})

C20_EveryCallReturns ==
  /\ [](\A p \in Procs : (mu = p) <=> Holder(p))
  /\ [](Idle => mu = 0)
  /\ \A p \in Procs : (pc[p] # "idle") ~> (pc[p] = "idle")

\* Initialize inside the Connection() it calls for verification, holding the
\* lock, while another thread waits for the lock.
C20_Witness ==
  \E p, q \in Procs :
    /\ pc[p] = "K_access" /\ fr[p].op = "Initialize" /\ mu = p
    /\ pc[q] \in {"I_lock", "X_lock"}

====
